---- MODULE Spec2Model ----
(***************************************************************************)
(* A model of the Vulkan texture cache (TextureCache: in-flight marks and  *)
(* the per-slot trash ring), of the Texture fields it moves around and of  *)
(* the SamplerManager memo table, as written in                            *)
(* src/core/rend/vulkan/texture.h, and of the GameScanner of                *)
(* src/_xtreme_amped/core/rend/game_scanner.h with its scan thread and the *)
(* threads that call it.                                                   *)
(*                                                                         *)
(* std::vector<X> v        is a sequence; v[i] of the code is v[i + 1].     *)
(* vk::Unique*, Allocation, unique_ptr<BufferData> are handles: 0 is the   *)
(* empty handle, n > 0 the sub-resource made by the n-th image allocation. *)
(* A handle that is destroyed (its owner is cleared or overwritten) goes   *)
(* to the set "freed" as <<kind, n>>.                                      *)
(***************************************************************************)
EXTENDS Integers, Sequences, FiniteSets, TLC

\* ------------------------------------------------------------- bounds
RingDepth == 2
MaxUploads == 1
MaxSamplers == 3
Textures == {"A", "B"}

Slots == 0 .. (RingDepth - 1)
Handles == 1 .. MaxUploads
NullHandle == 0

VARIABLES
    textures,            \* Texture fields, per Texture object
    inFlightTextures,    \* std::vector<std::unordered_set<Texture *>>
    trashedImageViews,   \* std::vector<std::vector<vk::UniqueImageView>>
    trashedImages,       \* std::vector<std::vector<vk::UniqueImage>>
    trashedMem,          \* std::vector<std::vector<Allocation>>
    trashedBuffers,      \* std::vector<std::vector<std::unique_ptr<BufferData>>>
    currentIndex,        \* u32 currentIndex
    freed,               \* sub-resources physically released: <<kind, handle>>
    allocated,           \* number of image allocations made so far
    fault,               \* "none", or how the process died
    trashedAt,           \* history: handle in the trash -> slot current when it was moved there
    age,                 \* history: handle in the trash -> SetCurrentIndex calls since then
    revisited,           \* history: handle -> SetCurrentIndex(trashedAt) was called since then
    sinceMark,           \* history: texture -> frames the frame loop ended since its
                         \*          latest SetInFlight, or -1
    samplers,            \* std::map<u32, vk::UniqueSampler>: hash -> sampler handle
    samplerInfo,         \* the device's live samplers: handle -> vk::SamplerCreateInfo
    samplersCreated,     \* number of createSamplerUnique calls so far
    TextureFiltering,    \* config::TextureFiltering
    AnisotropicFiltering,\* config::AnisotropicFiltering
    SupportsSamplerAnisotropy, \* VulkanContext::SupportsSamplerAnisotropy()
    got,                 \* history: <<tsp, handle>> of every GetSampler since the last term()
    made,                \* history: hashes a sampler was created for since the last term(), in order
    scan_done,           \* bool scan_done
    running,             \* bool running
    empty_folders_scanned,        \* unsigned int empty_folders_scanned
    content_path_looks_incorrect, \* bool content_path_looks_incorrect
    threadMutex,         \* std::mutex threadMutex: "free", or the caller that holds it
    scan_thread,         \* std::unique_ptr<std::thread>: 0, or the thread it owns
    game_list,           \* std::vector<GameMedia> game_list: "empty" or "games"
    arcade_game_list,    \* std::vector<GameMedia> arcade_game_list: "empty" or "games"
    threads,             \* the scan threads: where each is in the lambda, and its locals
    callers,             \* the calling threads: the call each is in, and where in it
    scansStarted         \* number of scan threads created so far

cacheVars == <<textures, inFlightTextures, trashedImageViews, trashedImages,
               trashedMem, trashedBuffers, currentIndex, freed>>
histVars == <<trashedAt, age, revisited>>
markVars == <<sinceMark>>
samplerVars == <<samplers, samplerInfo, samplersCreated, TextureFiltering,
                 AnisotropicFiltering, SupportsSamplerAnisotropy, got, made>>
textureCacheVars == <<textures, inFlightTextures, trashedImageViews, trashedImages,
                      trashedMem, trashedBuffers, currentIndex, freed, allocated,
                      fault, trashedAt, age, revisited, sinceMark>>
scannerVars == <<scan_done, running, empty_folders_scanned,
                 content_path_looks_incorrect, threadMutex, scan_thread, game_list,
                 arcade_game_list, threads, callers, scansStarted>>
vars == <<textureCacheVars, samplerVars, scannerVars>>

\* ------------------------------------------------------------ Texture
\* The fields of a Texture as its constructor leaves them.
NewTexture ==
    [image |-> NullHandle, imageView |-> NullHandle, allocation |-> NullHandle,
     stagingBufferData |-> NullHandle, readOnlyImageView |-> NullHandle,
     format |-> "eUndefined"]

\* vk::ImageView GetReadOnlyImageView() const
GetReadOnlyImageView(tex) ==
    IF tex.readOnlyImageView # NullHandle THEN tex.readOnlyImageView
    ELSE tex.imageView

\* The alias view a drawer installs for a texture whose primary view is v.
AliasViewOf(v) == 0 - v

Range(s) == {s[i] : i \in 1 .. Len(s)}

\* Handles of one kind held by some slot's list of a trash vector.
HeldIn(v) == UNION {Range(v[i]) : i \in 1 .. Len(v)} \ {NullHandle}

\* ------------------------------------------------------- TextureCache
Min(a, b) == IF a < b THEN a ELSE b

\* What indexing a vector past its end does: the five vectors are only ever
\* too short while they are still empty (no storage at all), so the access
\* dereferences a null data pointer, or trips the library's bounds assertion
\* in a hardened build.  Either way the process is gone.
OutOfRangeOutcomes == {"SIGSEGV", "SIGABRT"}

\* EmptyTrash as it would be if it cleared every slot's list.
EmptyTrashEverySlot(v, idx, empty) ==
    [i \in 1 .. (IF Len(v) < idx + 1 THEN idx + 1 ELSE Len(v)) |-> empty]

\* EmptyTrash as it would be if it only grew the vector.
EmptyTrashResizeOnly(v, idx, empty) ==
    IF Len(v) < idx + 1
    THEN v \o [i \in 1 .. (idx + 1 - Len(v)) |-> empty]
    ELSE v

\* EmptyTrash as it would be if it cleared the slot after the current one.
EmptyTrashNextSlot(v, idx, empty) ==
    LET grown == IF Len(v) < idx + 1
                 THEN v \o [i \in 1 .. (idx + 1 - Len(v)) |-> empty]
                 ELSE v
    IN  [grown EXCEPT ![((idx + 1) % Len(grown)) + 1] = empty]

\* EmptyTrash as it would be if growing the vector dropped what it held.
EmptyTrashDroppingOnGrow(v, idx, empty) ==
    IF Len(v) < idx + 1
    THEN [i \in 1 .. (idx + 1) |-> empty]
    ELSE [v EXCEPT ![idx + 1] = empty]

\* template<typename T> void EmptyTrash(T& v), with currentIndex = idx and
\* T's element default-constructed as "empty".
EmptyTrash(v, idx, empty) ==
    LET grown == IF Len(v) < idx + 1
                 THEN v \o [i \in 1 .. (idx + 1 - Len(v)) |-> empty]
                 ELSE v
    IN  [grown EXCEPT ![idx + 1] = empty]

\* The loops of Clear as they would be if they cleared the current slot only.
ClearCurrentOnly(v, empty) ==
    [i \in 1 .. Len(v) |-> IF i = currentIndex + 1 THEN empty ELSE v[i]]

\* for (auto& x : v) x.clear();
ClearAll(v, empty) == [i \in 1 .. Len(v) |-> empty]

\* The handles of one kind that a vector of trash lists let go of.
Released(kind, before, after) ==
    {<<kind, h>> : h \in HeldIn(before) \ HeldIn(after)}

\* The lambda of SetCurrentIndex as it would be if it reset the primary view.
ResetImageView(texs, set) ==
    [t \in Textures |->
        IF t \in set THEN [texs[t] EXCEPT !.imageView = NullHandle]
        ELSE texs[t]]

\* The lambda of SetCurrentIndex as it would be if it ran on every texture.
ResetEveryReadOnlyImageView(texs, set) ==
    [t \in Textures |-> [texs[t] EXCEPT !.readOnlyImageView = NullHandle]]

\* std::for_each(..., [](Texture *texture) { texture->readOnlyImageView = vk::ImageView(); })
ResetReadOnlyImageView(texs, set) ==
    [t \in Textures |->
        IF t \in set THEN [texs[t] EXCEPT !.readOnlyImageView = NullHandle]
        ELSE texs[t]]

\* IsInFlight as it would be without the test i != currentIndex.
IsInFlightAnySlot(t) ==
    \E i \in 1 .. Len(inFlightTextures) : t \in inFlightTextures[i]

\* bool IsInFlight(Texture *texture): the loop from index i on.
RECURSIVE IsInFlightFrom(_, _)
IsInFlightFrom(i, t) ==
    IF i >= Len(inFlightTextures) THEN FALSE
    ELSE IF i # currentIndex /\ t \in inFlightTextures[i + 1] THEN TRUE
    ELSE IsInFlightFrom(i + 1, t)

IsInFlight(t) == IsInFlightFrom(0, t)


\* Texture::UploadToGPU for a texture without an image: Init / CreateImage
\* make the image, its view and its memory, and a staging buffer when the
\* image memory cannot be written directly.
UploadToGPU(t, needsStaging) ==
    /\ fault = "none"
    /\ textures[t].image = NullHandle
    /\ allocated < MaxUploads
    /\ allocated' = allocated + 1
    /\ textures' = [textures EXCEPT ![t] =
           [@ EXCEPT !.image = allocated + 1,
                     !.imageView = allocated + 1,
                     !.allocation = allocated + 1,
                     !.stagingBufferData =
                         IF needsStaging THEN allocated + 1 ELSE NullHandle,
                     !.format = "eR8G8B8A8Unorm"]]
    /\ UNCHANGED <<inFlightTextures, trashedImageViews, trashedImages, trashedMem,
                   trashedBuffers, currentIndex, freed, fault, histVars, markVars,
                   samplerVars, scannerVars>>

\* A drawer (friend class) installs a read-only alias view on a texture.
SetReadOnlyImageView(t) ==
    /\ fault = "none"
    /\ textures[t].imageView # NullHandle
    /\ textures[t].readOnlyImageView = NullHandle
    /\ textures' = [textures EXCEPT
           ![t].readOnlyImageView = AliasViewOf(textures[t].imageView)]
    /\ UNCHANGED <<inFlightTextures, trashedImageViews, trashedImages, trashedMem,
                   trashedBuffers, currentIndex, freed, allocated, fault, histVars,
                   markVars, samplerVars, scannerVars>>

\* The body of SetCurrentIndex (all of it but the frame count of the caller).
SetCurrentIndexBody(index) ==
    /\ fault = "none"
    /\ textures' = IF currentIndex < Len(inFlightTextures)
                   THEN ResetReadOnlyImageView(textures,
                                               inFlightTextures[currentIndex + 1])
                   ELSE textures
    /\ currentIndex' = index
    /\ inFlightTextures' = EmptyTrash(inFlightTextures, index, {})
    /\ trashedImageViews' = EmptyTrash(trashedImageViews, index, <<>>)
    /\ trashedImages' = EmptyTrash(trashedImages, index, <<>>)
    /\ trashedMem' = EmptyTrash(trashedMem, index, <<>>)
    /\ trashedBuffers' = EmptyTrash(trashedBuffers, index, <<>>)
    /\ freed' = freed \cup Released("view", trashedImageViews, trashedImageViews')
                      \cup Released("image", trashedImages, trashedImages')
                      \cup Released("mem", trashedMem, trashedMem')
                      \cup Released("buffer", trashedBuffers, trashedBuffers')
    /\ trashedAt' = [h \in Handles |->
                        IF h \in HeldIn(trashedImages') THEN trashedAt[h] ELSE -1]
    /\ age' = [h \in Handles |->
                  IF h \in HeldIn(trashedImages')
                  THEN Min(age[h] + 1, RingDepth) ELSE 0]
    /\ revisited' = [h \in Handles |->
                        revisited[h] \/ (h \in HeldIn(trashedImages)
                                         /\ trashedAt[h] = index)]
    /\ UNCHANGED <<allocated, fault, samplerVars, scannerVars>>

\* void SetCurrentIndex(int index), called by any caller
SetCurrentIndex(index) ==
    /\ SetCurrentIndexBody(index)
    /\ UNCHANGED sinceMark

\* The slot the renderer's frame loop makes current next: 0, 1, ...,
\* RingDepth - 1, 0, ...
NextSlotInOrder ==
    IF Len(inFlightTextures) = 0 THEN 0 ELSE (currentIndex + 1) % RingDepth

\* The renderer's frame loop ends a frame: SetCurrentIndex of the next slot in
\* order; the textures marked so far have seen one more slot change.
EndFrame ==
    /\ SetCurrentIndexBody(NextSlotInOrder)
    /\ sinceMark' = [t \in Textures |->
                        IF sinceMark[t] = -1 THEN -1
                        ELSE Min(sinceMark[t] + 1, RingDepth)]

\* bool IsInFlight(Texture *texture), called
CallIsInFlight(t) ==
    /\ fault = "none"
    /\ IsInFlight(t) \in BOOLEAN
    /\ UNCHANGED vars

\* SetInFlight as it would be if it marked the texture in every slot.
SetInFlightEverySlot(t) ==
    /\ fault = "none"
    /\ currentIndex < Len(inFlightTextures)
    /\ inFlightTextures' = [i \in 1 .. Len(inFlightTextures) |->
                               inFlightTextures[i] \cup {t}]
    /\ sinceMark' = [sinceMark EXCEPT ![t] = 0]
    /\ UNCHANGED <<textures, trashedImageViews, trashedImages, trashedMem,
                   trashedBuffers, currentIndex, freed, allocated, fault, histVars,
                   samplerVars, scannerVars>>

\* void SetInFlight(Texture *texture)
SetInFlight(t) ==
    /\ fault = "none"
    /\ IF currentIndex < Len(inFlightTextures)
       THEN /\ inFlightTextures' =
                   [inFlightTextures EXCEPT ![currentIndex + 1] = @ \cup {t}]
            /\ fault' = fault
            /\ sinceMark' = [sinceMark EXCEPT ![t] = 0]
       ELSE /\ fault' \in OutOfRangeOutcomes
            /\ UNCHANGED <<inFlightTextures, markVars>>
    /\ UNCHANGED <<textures, trashedImageViews, trashedImages, trashedMem,
                   trashedBuffers, currentIndex, freed, allocated, histVars,
                   samplerVars, scannerVars>>

\* The test of DestroyLater as it would be if it were missing.
AlwaysHasImage(tex) == TRUE

\* if (!texture->image) return;  -- the test
HasImage(tex) == tex.image # NullHandle

\* push_back as it would be if it skipped an empty handle.
PushTrashUnlessNull(v, h) ==
    IF h = NullHandle THEN v ELSE [v EXCEPT ![currentIndex + 1] = Append(@, h)]

\* push_back(std::move(h)) on the current slot's list of trash vector v
PushTrash(v, h) == [v EXCEPT ![currentIndex + 1] = Append(@, h)]

\* The body of DestroyLater, which leaves inFlightTextures as "marks".
DestroyLaterBody(t, marks) ==
    /\ fault = "none"
    /\ inFlightTextures' = marks
    /\ IF ~HasImage(textures[t])
       THEN UNCHANGED <<textures, trashedImageViews, trashedImages, trashedMem,
                        trashedBuffers, currentIndex, freed, fault, histVars>>
       ELSE IF /\ currentIndex < Len(trashedImages)
             /\ currentIndex < Len(trashedImageViews)
             /\ currentIndex < Len(trashedMem)
             /\ currentIndex < Len(trashedBuffers)
          THEN /\ trashedImages' = PushTrash(trashedImages, textures[t].image)
               /\ trashedImageViews' = PushTrash(trashedImageViews, textures[t].imageView)
               /\ trashedMem' = PushTrash(trashedMem, textures[t].allocation)
               /\ trashedBuffers' =
                      PushTrash(trashedBuffers, textures[t].stagingBufferData)
               /\ textures' = [textures EXCEPT ![t] =
                      [@ EXCEPT !.image = NullHandle,
                                !.imageView = NullHandle,
                                !.allocation = NullHandle,
                                !.stagingBufferData = NullHandle,
                                !.format = "eUndefined"]]
               /\ trashedAt' = [trashedAt EXCEPT ![textures[t].image] = currentIndex]
               /\ UNCHANGED <<currentIndex, freed, fault, age, revisited>>
          ELSE /\ fault' \in OutOfRangeOutcomes
               /\ UNCHANGED <<textures, trashedImageViews, trashedImages, trashedMem,
                              trashedBuffers, currentIndex, freed, histVars>>
    /\ UNCHANGED <<allocated, markVars, samplerVars, scannerVars>>

\* DestroyLater as it would be if it erased the texture's in-flight marks,
\* as clearTexture does.
DestroyLaterUnmarking(t) ==
    DestroyLaterBody(t, [i \in 1 .. Len(inFlightTextures) |->
                            inFlightTextures[i] \ {t}])

\* void DestroyLater(Texture *texture)
DestroyLater(t) == DestroyLaterBody(t, inFlightTextures)

\* BaseTextureCache::Clear(): every cache entry is dropped, and with it the
\* sub-resources its Texture still owns.
DropEntries(texs) == [t \in Textures |-> NewTexture]

OwnedBy(texs) ==
    UNION {{<<"image", texs[t].image>>, <<"view", texs[t].imageView>>,
            <<"mem", texs[t].allocation>>, <<"buffer", texs[t].stagingBufferData>>}
           : t \in Textures}
      \ {<<k, NullHandle>> : k \in {"image", "view", "mem", "buffer"}}

\* void Clear()
Clear ==
    /\ fault = "none"
    /\ textures' = DropEntries(textures)
    /\ inFlightTextures' = ClearAll(inFlightTextures, {})
    /\ trashedImageViews' = ClearAll(trashedImageViews, <<>>)
    /\ trashedImages' = ClearAll(trashedImages, <<>>)
    /\ trashedMem' = ClearAll(trashedMem, <<>>)
    /\ trashedBuffers' = ClearAll(trashedBuffers, <<>>)
    /\ freed' = freed \cup OwnedBy(textures)
                      \cup Released("view", trashedImageViews, trashedImageViews')
                      \cup Released("image", trashedImages, trashedImages')
                      \cup Released("mem", trashedMem, trashedMem')
                      \cup Released("buffer", trashedBuffers, trashedBuffers')
    /\ trashedAt' = [h \in Handles |-> -1]
    /\ age' = [h \in Handles |-> 0]
    /\ sinceMark' = [t \in Textures |-> -1]
    /\ UNCHANGED <<currentIndex, allocated, fault, revisited, samplerVars, scannerVars>>

\* ----------------------------------------------------- SamplerManager
\* a & b on u32
RECURSIVE BitAnd(_, _, _)
BitAnd(a, b, bits) ==
    IF bits = 0 THEN 0
    ELSE (a % 2) * (b % 2) + 2 * BitAnd(a \div 2, b \div 2, bits - 1)

Pow2(n) == IF n = 0 THEN 1 ELSE 2 ^ n

\* A bit field of the TSP word: width bits from bit shift up.
Field(full, shift, width) == (full \div Pow2(shift)) % Pow2(width)

\* The fields of the TSP instruction word that GetSampler reads (bits 8-11,
\* 13-14, 15, 16, 17, 18 of the PowerVR TSP word; bit 12 is SupSample).
MipMapD(full) == Field(full, 8, 4)
FilterMode(full) == Field(full, 13, 2)
ClampV(full) == Field(full, 15, 1)
ClampU(full) == Field(full, 16, 1)
FlipV(full) == Field(full, 17, 1)
FlipU(full) == Field(full, 18, 1)

\* The mask as it would be if it kept the SupSample bit, 0x7ff00.
TSP_MaskWithSupSample == 519936 + 4096

\* static const u32 TSP_Mask = 0x7ef00;
TSP_Mask == 519936

\* VulkanContext::GetMaxSamplerAnisotropy() of the device
MaxSamplerAnisotropy == 2

\* The TSP words GetSampler is called with: words that differ in the masked
\* bits, and words that differ only outside them (TexV/TexU, SupSample, the
\* bit 30 of the word).
TSPWords ==
    {0, 4096 + 7, 256, 1073741824 + 256, 8192 + 65536}

\* The values of the two options.
TextureFilteringValues == {0, 1, 2}
AnisotropicFilteringValues == {1, 4}

\* const u32 samplerHash = tsp.full & TSP_Mask;
SamplerHash(full) == BitAnd(full, TSP_Mask, 32)

\* The vk::SamplerCreateInfo that GetSampler builds for a TSP word under the
\* options in effect.
SamplerCreateInfo(full) ==
    LET filter == IF TextureFiltering = 0
                  THEN (IF FilterMode(full) = 0 THEN "eNearest" ELSE "eLinear")
                  ELSE IF TextureFiltering = 1 THEN "eNearest"
                  ELSE "eLinear"
        uRepeat == IF ClampU(full) = 1 THEN "eClampToEdge"
                   ELSE IF FlipU(full) = 1 THEN "eMirroredRepeat" ELSE "eRepeat"
        vRepeat == IF ClampV(full) = 1 THEN "eClampToEdge"
                   ELSE IF FlipV(full) = 1 THEN "eMirroredRepeat" ELSE "eRepeat"
        anisotropicFiltering == /\ AnisotropicFiltering > 1
                                /\ SupportsSamplerAnisotropy
                                /\ filter = "eLinear"
    IN  [magFilter |-> filter, minFilter |-> filter,
         mipmapMode |-> IF filter = "eLinear" THEN "eLinear" ELSE "eNearest",
         addressModeU |-> uRepeat, addressModeV |-> vRepeat,
         mipLodBias |-> MipMapD(full),    \* the index into D_Adjust_LoD_Bias
         anisotropyEnable |-> anisotropicFiltering,
         maxAnisotropy |-> Min(AnisotropicFiltering, MaxSamplerAnisotropy)]

\* std::map::emplace: the entry of an existing key stays.
Emplace(m, k, v) == [x \in DOMAIN m \cup {k} |-> IF x \in DOMAIN m THEN m[x] ELSE v]

\* samplers.find(samplerHash) != samplers.end()
Found(m, k) == k \in DOMAIN m

\* vk::Sampler GetSampler(TSP tsp); "got" records what it returned.
GetSampler(full) ==
    LET samplerHash == SamplerHash(full)
    IN  IF Found(samplers, samplerHash)
        THEN /\ got' = got \cup {<<full, samplers[samplerHash]>>}
             /\ UNCHANGED <<samplers, samplerInfo, samplersCreated, made>>
        ELSE /\ samplersCreated < MaxSamplers
             /\ samplersCreated' = samplersCreated + 1
             /\ samplerInfo' = Emplace(samplerInfo, samplersCreated + 1,
                                       SamplerCreateInfo(full))
             /\ samplers' = Emplace(samplers, samplerHash, samplersCreated + 1)
             /\ made' = Append(made, samplerHash)
             /\ got' = got \cup {<<full, samplers'[samplerHash]>>}

GetSamplerCall(full) ==
    /\ GetSampler(full)
    /\ UNCHANGED <<textureCacheVars, scannerVars, TextureFiltering, AnisotropicFiltering,
                   SupportsSamplerAnisotropy>>

\* term as it would be if it forgot what was returned but kept the map.
termKeepingSamplers ==
    /\ got' = {}
    /\ made' = <<>>
    /\ UNCHANGED <<textureCacheVars, scannerVars, samplers, samplerInfo, samplersCreated,
                   TextureFiltering, AnisotropicFiltering, SupportsSamplerAnisotropy>>

\* void term(): every UniqueSampler of the map is destroyed.
term ==
    /\ samplers' = <<>>
    /\ samplerInfo' = <<>>
    /\ got' = {}
    /\ made' = <<>>
    /\ UNCHANGED <<textureCacheVars, scannerVars, samplersCreated, TextureFiltering,
                   AnisotropicFiltering, SupportsSamplerAnisotropy>>

\* The user changes the texture filtering or the anisotropy option.
SetOptions(filtering, anisotropy) ==
    /\ TextureFiltering' = filtering
    /\ AnisotropicFiltering' = anisotropy
    /\ UNCHANGED <<textureCacheVars, scannerVars, samplers, samplerInfo, samplersCreated,
                   SupportsSamplerAnisotropy, got, made>>

\* -------------------------------------------------------- GameScanner
\* The bounds of the scanner: the threads that call it, the scan threads that
\* may be created, the entries of config::ContentPath and the items a
\* directory tree yields at most.
Callers == {"ui", "net"}
MaxScans == 2
NumPaths == 2
MaxItems == 1

ScanThreads == 1 .. MaxScans

\* if (empty_folders_scanned > 1000)
EmptyFoldersLimit == 1000

\* A scan thread that has not been created; "cut" records that the thread has
\* seen running false in one of the tests that break its loops.
NoThread == [pc |-> "unborn", path |-> 0, item |-> 0, tmp |-> 0, cut |-> FALSE]

\* A thread that has left the lambda, or was joined: its locals are gone.
Ended(th, pc) == [pc |-> pc, path |-> 0, item |-> 0, tmp |-> 0, cut |-> threads[th].cut]

\* Scan thread th is between its creation and the return of the lambda.
InScanBody(th) == threads[th].pc \notin {"unborn", "done", "joined"}

\* A step of scan thread th from pc "from" that leaves the callers, the thread
\* handle and the mutex alone.
ThreadStep(th, from) ==
    /\ threads[th].pc = from
    /\ UNCHANGED <<textureCacheVars, samplerVars, threadMutex, scan_thread, callers,
                   scansStarted>>

Goto(th, pc) == [threads EXCEPT ![th].pc = pc]

\* Lines 166-178: the arcade tables are filled, game_list is cleared under
\* "mutex" and arcade_game_list is cleared; then the loop over the paths.
ScanBegin(th) ==
    /\ ThreadStep(th, "begin")
    /\ game_list' = "empty"
    /\ arcade_game_list' = "empty"
    /\ threads' = [threads EXCEPT ![th].pc = "next_item", ![th].path = 1,
                                  ![th].item = 0]
    /\ UNCHANGED <<scan_done, running, empty_folders_scanned,
                   content_path_looks_incorrect>>

\* hostfs::DirectoryTree tree(path) and the range-for over it: the tree yields
\* one more item, or is at its end, or throws hostfs::StorageException, which
\* the lambda catches and ignores.
NextItem(th) ==
    /\ ThreadStep(th, "next_item")
    /\ \/ /\ threads[th].item < MaxItems
          /\ threads' = [threads EXCEPT ![th].pc = "item_running",
                                        ![th].item = @ + 1]
       \/ threads' = Goto(th, "path_running")
    /\ UNCHANGED <<scan_done, running, empty_folders_scanned,
                   content_path_looks_incorrect, game_list, arcade_game_list>>

\* if (!running) break;    -- in add_game_directory
ItemTestRunning(th) ==
    /\ ThreadStep(th, "item_running")
    /\ threads' = IF ~running
                  THEN [threads EXCEPT ![th].pc = "path_running", ![th].cut = TRUE]
                  ELSE Goto(th, "item_count")
    /\ UNCHANGED <<scan_done, running, empty_folders_scanned,
                   content_path_looks_incorrect, game_list, arcade_game_list>>

\* if (game_list.empty()) { ... if (parentPath != emptyParentPath) { the read
\* of ++empty_folders_scanned } } else content_path_looks_incorrect = false;
\* The first item of a tree always has a new parent path, a later one may.
ItemCount(th) ==
    /\ ThreadStep(th, "item_count")
    /\ IF game_list = "empty"
       THEN /\ \/ threads' = [threads EXCEPT ![th].pc = "count_write",
                                             ![th].tmp = empty_folders_scanned]
               \/ /\ threads[th].item > 1
                  /\ threads' = Goto(th, "item_insert")
            /\ UNCHANGED content_path_looks_incorrect
       ELSE /\ content_path_looks_incorrect' = FALSE
            /\ threads' = Goto(th, "item_insert")
    /\ UNCHANGED <<scan_done, running, empty_folders_scanned, game_list,
                   arcade_game_list>>

\* The write of ++empty_folders_scanned (the count stays far below 2^32).
CountWrite(th) ==
    /\ ThreadStep(th, "count_write")
    /\ empty_folders_scanned' = threads[th].tmp + 1
    /\ threads' = [threads EXCEPT ![th].pc = "count_test", ![th].tmp = 0]
    /\ UNCHANGED <<scan_done, running, content_path_looks_incorrect, game_list,
                   arcade_game_list>>

\* if (empty_folders_scanned > 1000) content_path_looks_incorrect = true;
CountTest(th) ==
    /\ ThreadStep(th, "count_test")
    /\ content_path_looks_incorrect' =
           IF empty_folders_scanned > EmptyFoldersLimit THEN TRUE
           ELSE content_path_looks_incorrect
    /\ threads' = Goto(th, "item_insert")
    /\ UNCHANGED <<scan_done, running, empty_folders_scanned, game_list,
                   arcade_game_list>>

\* Lines 97-130: by its name the item is skipped, or goes to arcade_game_list,
\* or to game_list (under "mutex").
ItemInsert(th) ==
    /\ ThreadStep(th, "item_insert")
    /\ \/ UNCHANGED <<game_list, arcade_game_list>>
       \/ arcade_game_list' = "games" /\ UNCHANGED game_list
       \/ game_list' = "games" /\ UNCHANGED arcade_game_list
    /\ threads' = Goto(th, "next_item")
    /\ UNCHANGED <<scan_done, running, empty_folders_scanned,
                   content_path_looks_incorrect>>

\* if (!running) break;    -- in the loop over config::ContentPath
PathTestRunning(th) ==
    /\ ThreadStep(th, "path_running")
    /\ threads' = IF ~running
                  THEN [threads EXCEPT ![th].pc = "merge", ![th].cut = TRUE]
                  ELSE IF threads[th].path < NumPaths
                  THEN [threads EXCEPT ![th].pc = "next_item", ![th].path = @ + 1,
                                       ![th].item = 0]
                  ELSE Goto(th, "merge")
    /\ UNCHANGED <<scan_done, running, empty_folders_scanned,
                   content_path_looks_incorrect, game_list, arcade_game_list>>

\* game_list.insert(game_list.end(), arcade_game_list.begin(), ...) under "mutex"
MergeArcade(th) ==
    /\ ThreadStep(th, "merge")
    /\ game_list' = IF arcade_game_list = "games" THEN "games" ELSE game_list
    /\ threads' = Goto(th, "done_running")
    /\ UNCHANGED <<scan_done, running, empty_folders_scanned,
                   content_path_looks_incorrect, arcade_game_list>>

\* if (running)    -- the test of line 193
DoneTestRunning(th) ==
    /\ ThreadStep(th, "done_running")
    /\ threads' = IF running THEN Goto(th, "set_done") ELSE Goto(th, "clear_running")
    /\ UNCHANGED <<scan_done, running, empty_folders_scanned,
                   content_path_looks_incorrect, game_list, arcade_game_list>>

\* scan_done = true;
SetScanDone(th) ==
    /\ ThreadStep(th, "set_done")
    /\ scan_done' = TRUE
    /\ threads' = Goto(th, "clear_running")
    /\ UNCHANGED <<running, empty_folders_scanned, content_path_looks_incorrect,
                   game_list, arcade_game_list>>

\* running = false;  and the lambda returns
ClearRunning(th) ==
    /\ ThreadStep(th, "clear_running")
    /\ running' = FALSE
    /\ threads' = [threads EXCEPT ![th] = Ended(th, "done")]
    /\ UNCHANGED <<scan_done, empty_folders_scanned, content_path_looks_incorrect,
                   game_list, arcade_game_list>>

ScanThreadStep(th) ==
    \/ ScanBegin(th)
    \/ NextItem(th)
    \/ ItemTestRunning(th)
    \/ ItemCount(th)
    \/ CountWrite(th)
    \/ CountTest(th)
    \/ ItemInsert(th)
    \/ PathTestRunning(th)
    \/ MergeArcade(th)
    \/ DoneTestRunning(th)
    \/ SetScanDone(th)
    \/ ClearRunning(th)

\* A caller that is in no call of the scanner.
NoCall == [op |-> "none", pc |-> "none"]

\* A step of caller c from pc "from" that leaves the scan threads' locals and
\* the lists alone.
CallerStep(c, from) ==
    /\ callers[c].pc = from
    /\ UNCHANGED <<textureCacheVars, samplerVars, game_list, arcade_game_list>>

At(c, pc) == [callers EXCEPT ![c].pc = pc]

\* The thread handle as it would be if it never were joinable.
NeverJoinable(th) == FALSE

\* scan_thread && scan_thread->joinable()
Joinable(th) == th # 0 /\ threads[th].pc # "joined"

\* Caller c enters stop(), refresh() or fetch_game_list().
Call(c, op) ==
    /\ CallerStep(c, "none")
    /\ callers' = [callers EXCEPT ![c] = [op |-> op, pc |-> "lock"]]
    /\ UNCHANGED <<scan_done, running, empty_folders_scanned,
                   content_path_looks_incorrect, threadMutex, scan_thread, threads,
                   scansStarted>>

\* std::lock_guard<std::mutex> guard(threadMutex);  (a fetch_game_list that
\* could create one thread too many is not let in)
Lock(c) ==
    /\ CallerStep(c, "lock")
    /\ threadMutex = "free"
    /\ callers[c].op = "fetch" => scansStarted < MaxScans
    /\ threadMutex' = c
    /\ callers' = At(c, IF callers[c].op = "fetch" THEN "test_done" ELSE "stop_running")
    /\ UNCHANGED <<scan_done, running, empty_folders_scanned,
                   content_path_looks_incorrect, scan_thread, threads, scansStarted>>

\* The guard goes out of scope and the call returns; refresh() goes on after
\* its stop().
Return(c) ==
    IF callers[c].op = "refresh" /\ callers[c].pc = "stop_join"
    THEN At(c, "reset_done")
    ELSE [callers EXCEPT ![c] = NoCall]

\* stop(): running = false;
StopRunning(c) ==
    /\ CallerStep(c, "stop_running")
    /\ running' = FALSE
    /\ callers' = At(c, "stop_count")
    /\ UNCHANGED <<scan_done, empty_folders_scanned, content_path_looks_incorrect,
                   threadMutex, scan_thread, threads, scansStarted>>

\* stop(): empty_folders_scanned = 0;
StopCount(c) ==
    /\ CallerStep(c, "stop_count")
    /\ empty_folders_scanned' = 0
    /\ callers' = At(c, "stop_incorrect")
    /\ UNCHANGED <<scan_done, running, content_path_looks_incorrect, threadMutex,
                   scan_thread, threads, scansStarted>>

\* stop(): content_path_looks_incorrect = false;
StopIncorrect(c) ==
    /\ CallerStep(c, "stop_incorrect")
    /\ content_path_looks_incorrect' = FALSE
    /\ callers' = At(c, "stop_join")
    /\ UNCHANGED <<scan_done, running, empty_folders_scanned, threadMutex,
                   scan_thread, threads, scansStarted>>

\* if (scan_thread && scan_thread->joinable()) scan_thread->join();
\* join() returns once the thread has left the lambda.
Join ==
    IF Joinable(scan_thread)
    THEN /\ threads[scan_thread].pc = "done"
         /\ threads' = [threads EXCEPT ![scan_thread] = Ended(scan_thread, "joined")]
    ELSE UNCHANGED threads

\* stop(): the join, and the return.
StopJoin(c) ==
    /\ CallerStep(c, "stop_join")
    /\ Join
    /\ threadMutex' = "free"
    /\ callers' = Return(c)
    /\ UNCHANGED <<scan_done, running, empty_folders_scanned,
                   content_path_looks_incorrect, scan_thread, scansStarted>>

\* refresh(): scan_done = false;  after stop() has returned
RefreshResetDone(c) ==
    /\ CallerStep(c, "reset_done")
    /\ scan_done' = FALSE
    /\ callers' = Return(c)
    /\ UNCHANGED <<running, empty_folders_scanned, content_path_looks_incorrect,
                   threadMutex, scan_thread, threads, scansStarted>>

\* fetch_game_list(): if (scan_done || ...) return;   -- the left operand
FetchTestDone(c) ==
    /\ CallerStep(c, "test_done")
    /\ IF scan_done
       THEN threadMutex' = "free" /\ callers' = Return(c)
       ELSE threadMutex' = threadMutex /\ callers' = At(c, "test_running")
    /\ UNCHANGED <<scan_done, running, empty_folders_scanned,
                   content_path_looks_incorrect, scan_thread, threads, scansStarted>>

\* fetch_game_list(): if (... || running) return;   -- the right operand
FetchTestRunning(c) ==
    /\ CallerStep(c, "test_running")
    /\ IF running
       THEN threadMutex' = "free" /\ callers' = Return(c)
       ELSE threadMutex' = threadMutex /\ callers' = At(c, "fetch_join")
    /\ UNCHANGED <<scan_done, running, empty_folders_scanned,
                   content_path_looks_incorrect, scan_thread, threads, scansStarted>>

\* fetch_game_list(): the join of the previous thread
FetchJoin(c) ==
    /\ CallerStep(c, "fetch_join")
    /\ Join
    /\ callers' = At(c, "set_running")
    /\ UNCHANGED <<scan_done, running, empty_folders_scanned,
                   content_path_looks_incorrect, threadMutex, scan_thread,
                   scansStarted>>

\* fetch_game_list(): running = true;
FetchSetRunning(c) ==
    /\ CallerStep(c, "set_running")
    /\ running' = TRUE
    /\ callers' = At(c, "spawn")
    /\ UNCHANGED <<scan_done, empty_folders_scanned, content_path_looks_incorrect,
                   threadMutex, scan_thread, threads, scansStarted>>

\* fetch_game_list(): scan_thread = unique_ptr(new std::thread(lambda)),
\* and the return.
FetchSpawn(c) ==
    /\ CallerStep(c, "spawn")
    /\ scansStarted' = scansStarted + 1
    /\ scan_thread' = scansStarted + 1
    /\ threads' = [threads EXCEPT ![scansStarted + 1] =
                       [NoThread EXCEPT !.pc = "begin"]]
    /\ threadMutex' = "free"
    /\ callers' = Return(c)
    /\ UNCHANGED <<scan_done, running, empty_folders_scanned,
                   content_path_looks_incorrect>>

\* void stop()
stop(c) ==
    \/ Call(c, "stop")
    \/ callers[c].op = "stop" /\
          (Lock(c) \/ StopRunning(c) \/ StopCount(c) \/ StopIncorrect(c) \/ StopJoin(c))

\* void refresh()
refresh(c) ==
    \/ Call(c, "refresh")
    \/ callers[c].op = "refresh" /\
          (\/ Lock(c) \/ StopRunning(c) \/ StopCount(c) \/ StopIncorrect(c)
           \/ StopJoin(c) \/ RefreshResetDone(c))

\* void fetch_game_list()
fetch_game_list(c) ==
    \/ Call(c, "fetch")
    \/ callers[c].op = "fetch" /\
          (\/ Lock(c) \/ FetchTestDone(c) \/ FetchTestRunning(c) \/ FetchJoin(c)
           \/ FetchSetRunning(c) \/ FetchSpawn(c))

\* ------------------------------------------------------ specifications
\* GameScanner as its member initializers leave it; nobody has called it.
InitScanner ==
    /\ scan_done = FALSE
    /\ running = FALSE
    /\ empty_folders_scanned = 0
    /\ content_path_looks_incorrect = FALSE
    /\ threadMutex = "free"
    /\ scan_thread = 0
    /\ game_list = "empty"
    /\ arcade_game_list = "empty"
    /\ threads = [th \in ScanThreads |-> NoThread]
    /\ callers = [c \in Callers |-> NoCall]
    /\ scansStarted = 0

InitSamplers ==
    /\ samplers = <<>>
    /\ samplerInfo = <<>>
    /\ samplersCreated = 0
    /\ TextureFiltering = 0
    /\ AnisotropicFiltering = 1
    /\ got = {}
    /\ made = <<>>

\* TextureCache(): empty vectors, currentIndex = 0; no texture uploaded yet.
InitTextureCache ==
    /\ textures = [t \in Textures |-> NewTexture]
    /\ inFlightTextures = <<>>
    /\ trashedImageViews = <<>>
    /\ trashedImages = <<>>
    /\ trashedMem = <<>>
    /\ trashedBuffers = <<>>
    /\ currentIndex = 0
    /\ freed = {}
    /\ allocated = 0
    /\ fault = "none"
    /\ trashedAt = [h \in Handles |-> -1]
    /\ age = [h \in Handles |-> 0]
    /\ revisited = [h \in Handles |-> FALSE]
    /\ sinceMark = [t \in Textures |-> -1]

\* The renderer on a device with sampler anisotropy.
Init ==
    /\ InitTextureCache
    /\ InitSamplers
    /\ SupportsSamplerAnisotropy = TRUE
    /\ InitScanner

\* The renderer on a device with or without sampler anisotropy.
InitAnyDevice ==
    /\ InitTextureCache
    /\ InitSamplers
    /\ SupportsSamplerAnisotropy \in BOOLEAN
    /\ InitScanner

\* The calls of the texture cache other than Clear and SetCurrentIndex.
TextureCalls ==
    \/ \E t \in Textures, needsStaging \in BOOLEAN : UploadToGPU(t, needsStaging)
    \/ \E t \in Textures : SetReadOnlyImageView(t)
    \/ \E t \in Textures : CallIsInFlight(t)
    \/ \E t \in Textures : SetInFlight(t)
    \/ \E t \in Textures : DestroyLater(t)

\* Any slot in any order, no Clear.
NextRing ==
    \/ TextureCalls
    \/ \E index \in Slots : SetCurrentIndex(index)

SpecRing == Init /\ [][NextRing]_vars

\* The renderer's frame loop: the slots in order.
NextCycle ==
    \/ TextureCalls
    \/ EndFrame

SpecCycle == Init /\ [][NextCycle]_vars

\* Any call of the texture cache.
Next ==
    \/ TextureCalls
    \/ \E index \in Slots : SetCurrentIndex(index)
    \/ Clear

Spec == Init /\ [][Next]_vars

\* Any call of the sampler manager, and changes of the options.
NextSampler ==
    \/ \E full \in TSPWords : GetSamplerCall(full)
    \/ term
    \/ \E filtering \in TextureFilteringValues,
          anisotropy \in AnisotropicFilteringValues :
            SetOptions(filtering, anisotropy)

SpecSampler == InitAnyDevice /\ [][NextSampler]_vars

\* Any interleaving of the callers' calls of the scanner and the scan threads.
NextScanner ==
    \/ \E c \in Callers : stop(c)
    \/ \E c \in Callers : refresh(c)
    \/ \E c \in Callers : fetch_game_list(c)
    \/ \E th \in ScanThreads : ScanThreadStep(th)

SpecScanner == Init /\ [][NextScanner]_vars

\* -------------------------------------------------------------- claims
Kinds == {"image", "view", "mem", "buffer"}

TrashOf(kind) ==
    CASE kind = "image" -> trashedImages
      [] kind = "view" -> trashedImageViews
      [] kind = "mem" -> trashedMem
      [] kind = "buffer" -> trashedBuffers

\* Sub-resource h of the given kind lies in slot k's trash list.
HeldAt(kind, h, k) ==
    /\ k < Len(TrashOf(kind))
    /\ h \in Range(TrashOf(kind)[k + 1])

\* Image, view and memory h lie in slot k's bins and in no other slot's, and so
\* does the staging buffer h unless there was none (a null entry instead).
HeldOnlyAt(h, k) ==
    /\ \A kind \in {"image", "view", "mem"} : HeldAt(kind, h, k)
    /\ \A kind \in Kinds, j \in Slots \ {k} : ~HeldAt(kind, h, j)
    /\ HeldAt("buffer", h, k) \/ HeldAt("buffer", NullHandle, k)

NothingFreedOf(h) == \A kind \in Kinds : <<kind, h>> \notin freed

\* C1: a sub-resource lying in slot k's trash leaves it only in a step that is
\* SetCurrentIndex(k): SetCurrentIndex(j) with j # k, SetInFlight, IsInFlight
\* and DestroyLater leave it where it is; and a sub-resource is released only
\* by the SetCurrentIndex call that passes the slot whose trash it lies in.
C1_OnlySetCurrentIndexOfOwnSlotReleases ==
    [][\/ UNCHANGED <<trashedImageViews, trashedImages, trashedMem, trashedBuffers,
                       freed>>
       \/ /\ \A k \in Slots :
                (\E kind \in Kinds, h \in Handles :
                    /\ HeldAt(kind, h, k)
                    /\ ~(HeldAt(kind, h, k))' \/ <<kind, h>> \in freed')
                => SetCurrentIndex(k)
          /\ \A kind \in Kinds, h \in Handles :
                (<<kind, h>> \notin freed /\ <<kind, h>> \in freed') =>
                    \E k \in Slots : HeldAt(kind, h, k)]_vars

\* A trashed image that outlived a change to another slot and an in-flight mark.
C1_Witness ==
    \E h \in Handles, k \in Slots :
        /\ HeldOnlyAt(h, k)
        /\ currentIndex # k
        /\ age[h] >= 1
        /\ inFlightTextures[currentIndex + 1] # {}

\* C2: with the slots visited in order, a sub-resource in the trash has seen at
\* most RingDepth - 1 SetCurrentIndex calls and still lies in the bins of the
\* slot it was trashed in, and the call that releases it is the RingDepth-th.
C2_InOrderReleasedByTheRthCall ==
    /\ [](\A h \in Handles :
             h \in HeldIn(trashedImages) =>
                 /\ age[h] <= RingDepth - 1
                 /\ HeldOnlyAt(h, trashedAt[h])
                 /\ NothingFreedOf(h))
    /\ [][\A h \in Handles :
             (h \in HeldIn(trashedImages) /\ h \notin HeldIn(trashedImages)') =>
                 /\ age[h] = RingDepth - 1
                 /\ currentIndex' = trashedAt[h]
                 /\ {<<"image", h>>, <<"view", h>>, <<"mem", h>>} \subseteq freed']_vars

\* In-order cycling has released a trashed image on coming back to its slot.
C2_Witness ==
    \E h \in Handles :
        /\ revisited[h]
        /\ {<<"image", h>>, <<"view", h>>, <<"mem", h>>} \subseteq freed
        /\ Len(inFlightTextures) = RingDepth

\* C3 as claimed: whatever the order of the slots, a sub-resource leaves the
\* trash only after at least RingDepth - 1 SetCurrentIndex calls since it was
\* put there.
C3_ReleasedAfterRingDepthMinusOneCalls ==
    [][\A h \in Handles :
          (h \in HeldIn(trashedImages) /\ h \notin HeldIn(trashedImages)') =>
              age[h] >= RingDepth - 1]_vars

\* C3 as amended: a trashed sub-resource is released by the first later
\* SetCurrentIndex call that passes the slot it was trashed in, however few
\* calls came between, and by no other call.
C3_ReleasedByFirstCallPassingItsSlot ==
    \A h \in Handles :
        /\ revisited[h] =>
               /\ {<<"image", h>>, <<"view", h>>, <<"mem", h>>} \subseteq freed
               /\ \A kind \in Kinds, k \in Slots : ~HeldAt(kind, h, k)
        /\ ~revisited[h] => NothingFreedOf(h)

\* A sub-resource released by a call that passed the slot that was current
\* already: no other slot was ever visited.
C3_Witness ==
    \E h \in Handles :
        /\ revisited[h]
        /\ <<"image", h>> \in freed
        /\ Len(inFlightTextures) = 1

\* The four owned sub-resources of a texture.
Owned(tex) == <<tex.image, tex.imageView, tex.allocation, tex.stagingBufferData>>

\* C4: the sub-resources a texture owns are in no trash bin and not released,
\* and no step other than DestroyLater of that texture takes one from it.
C4_UntrashedObjectKeepsItsResources ==
    /\ [](\A t \in Textures, kind \in Kinds :
             LET h == CASE kind = "image" -> textures[t].image
                        [] kind = "view" -> textures[t].imageView
                        [] kind = "mem" -> textures[t].allocation
                        [] kind = "buffer" -> textures[t].stagingBufferData
             IN  h # NullHandle =>
                     /\ <<kind, h>> \notin freed
                     /\ \A k \in Slots : ~HeldAt(kind, h, k))
    /\ [][\A t \in Textures :
             (textures[t].image # NullHandle /\ ~DestroyLater(t)) =>
                 Owned(textures'[t]) = Owned(textures[t])]_vars

\* A live texture that was marked in flight in a slot that has been left and
\* whose marks in the current slot were cleared by coming back to it.
C4_Witness ==
    \E t \in Textures :
        /\ textures[t].image # NullHandle
        /\ textures[t].imageView # NullHandle
        /\ Len(inFlightTextures) = RingDepth
        /\ IsInFlight(t)
        /\ t \notin inFlightTextures[currentIndex + 1]

\* C5: DestroyLater of a texture without an image changes nothing; of a texture
\* with one, it adds one entry to each of the current slot's four lists and
\* leaves the texture without an image, so that a second call changes nothing.
C5_DestroyLaterTwiceTrashesOnce ==
    [][\A t \in Textures :
          DestroyLater(t) =>
              IF textures[t].image = NullHandle
              THEN UNCHANGED <<cacheVars, histVars, fault>>
              ELSE \/ fault' # "none"
                   \/ /\ textures'[t].image = NullHandle
                      /\ \A kind \in Kinds :
                            Len(TrashOf(kind)'[currentIndex + 1]) =
                                Len(TrashOf(kind)[currentIndex + 1]) + 1]_vars

\* A texture that was trashed and holds no image: DestroyLater of it is the
\* second call, and the bins hold one entry of each kind.
C5_Witness ==
    \E t \in Textures :
        /\ textures[t].image = NullHandle
        /\ textures[t].readOnlyImageView # NullHandle
        /\ currentIndex < Len(trashedImages)
        /\ \A kind \in Kinds : Len(TrashOf(kind)[currentIndex + 1]) = 1

\* C6: DestroyLater of a texture with an image leaves its image, view, memory
\* and staging buffer in the current slot's bins and in no other, and leaves
\* the texture with no sub-resource at all: image, primary view, read-only
\* alias view, allocation and staging buffer empty, format undefined.
C6_DestroyLaterLeavesObjectEmpty ==
    [][\A t \in Textures, h \in Handles :
          (DestroyLater(t) /\ textures[t].image = h /\ fault' = "none") =>
              /\ (HeldOnlyAt(h, currentIndex))'
              /\ textures'[t] = NewTexture
              /\ GetReadOnlyImageView(textures'[t]) = NullHandle]_vars

\* C7: DestroyLater changes no in-flight set and not the current index, so
\* IsInFlight answers the same for every texture after it as before.
C7_DestroyLaterKeepsInFlightMarks ==
    [][\A t \in Textures :
          DestroyLater(t) =>
              /\ UNCHANGED <<inFlightTextures, currentIndex>>
              /\ \A u \in Textures : (IsInFlight(u))' = IsInFlight(u)]_vars

\* A texture that DestroyLater emptied and that is still reported in flight.
C7_Witness ==
    \E t \in Textures, h \in Handles, k \in Slots :
        /\ textures[t].image = NullHandle
        /\ textures[t].readOnlyImageView = AliasViewOf(h)
        /\ HeldOnlyAt(h, k)
        /\ IsInFlight(t)

\* C8: IsInFlight(t) is true exactly when t is in the in-flight set of some
\* slot other than the current one.
C8_InFlightIffMarkedInAnotherSlot ==
    \A t \in Textures :
        IsInFlight(t) <=>
            \E i \in 0 .. (Len(inFlightTextures) - 1) :
                i # currentIndex /\ t \in inFlightTextures[i + 1]

\* One texture is marked in the current slot only and is not in flight, while
\* another is in flight.
C8_Witness ==
    \E t, u \in Textures :
        /\ currentIndex < Len(inFlightTextures)
        /\ t \in inFlightTextures[currentIndex + 1]
        /\ ~IsInFlight(t)
        /\ IsInFlight(u)

\* C9: Clear leaves every slot's in-flight set and every slot's four trash
\* lists empty, has released what the lists held, leaves no texture in flight
\* and does not change the current index.
C9_ClearEmptiesEverySlot ==
    [][Clear =>
          /\ \A i \in 1 .. Len(inFlightTextures') : inFlightTextures'[i] = {}
          /\ \A kind \in Kinds :
                /\ \A i \in 1 .. Len(TrashOf(kind)') : TrashOf(kind)'[i] = <<>>
                /\ \A h \in HeldIn(TrashOf(kind)) : <<kind, h>> \in freed'
          /\ \A t \in Textures : ~(IsInFlight(t))'
          /\ currentIndex' = currentIndex]_vars

\* Everything is empty although a slot other than the current one had been in
\* use, and an image was released without its slot having been revisited.
C9_Witness ==
    /\ Len(inFlightTextures) = RingDepth
    /\ \A i \in 1 .. Len(inFlightTextures) : inFlightTextures[i] = {}
    /\ \A kind \in Kinds : HeldIn(TrashOf(kind)) = {}
    /\ \E h \in Handles : <<"image", h>> \in freed /\ ~revisited[h]

\* The bits of a TSP word that decide the sampler.
FilterRelevant(full) ==
    <<MipMapD(full), FilterMode(full), ClampU(full), ClampV(full), FlipU(full),
      FlipV(full)>>

\* C10: since the last term(), two GetSampler calls returned the same handle
\* exactly when their TSP words agree on MipMapD, FilterMode, ClampU, ClampV,
\* FlipU and FlipV; no hash had a sampler created twice; and an entry of the
\* map keeps its handle until term().
C10_OneSamplerPerFilterRelevantBits ==
    /\ [](\A x, y \in got :
             (FilterRelevant(x[1]) = FilterRelevant(y[1])) <=> (x[2] = y[2]))
    /\ [](\A i, j \in 1 .. Len(made) : made[i] = made[j] => i = j)
    /\ [][\A k \in DOMAIN samplers :
             k \in DOMAIN samplers' => samplers'[k] = samplers[k]]_vars

\* Two words that differ only outside the mask got one handle, and a word that
\* differs inside it got another.
C10_Witness ==
    \E x, y, z \in got :
        /\ x[1] # y[1]
        /\ x[2] = y[2]
        /\ z[2] # x[2]
        /\ Len(made) = 2

\* The sampler handles the device has destroyed.
ReleasedSamplers == (1 .. samplersCreated) \ DOMAIN samplerInfo

\* C11: term() leaves the map empty and every sampler created before it
\* destroyed; the map never holds a destroyed handle; and a GetSampler call on
\* an empty map (the only step that adds to "got") creates a sampler that did
\* not exist before, memoizes it and returns it.
C11_TermReleasesAllAndGetRecreates ==
    /\ [][term => /\ samplers' = <<>>
                  /\ ReleasedSamplers' = 1 .. samplersCreated]_vars
    /\ [](\A k \in DOMAIN samplers : samplers[k] \notin ReleasedSamplers)
    /\ [](\A x \in got : x[2] \notin ReleasedSamplers)
    /\ [][(samplers = <<>> /\ got' # got) =>
             \E x \in got' :
                 /\ got' = got \cup {x}
                 /\ samplers' = [k \in {SamplerHash(x[1])} |-> x[2]]
                 /\ x[2] \notin 1 .. samplersCreated
                 /\ x[2] \in DOMAIN samplerInfo']_vars

\* After a term() that destroyed a sampler, the first GetSampler created the
\* only live one.
C11_Witness ==
    /\ ReleasedSamplers # {}
    /\ Len(made) = 1
    /\ \E x \in got : DOMAIN samplerInfo = {x[2]} /\ x[2] > 1

\* The five per-slot vectors.
PerSlot ==
    <<inFlightTextures, trashedImageViews, trashedImages, trashedMem, trashedBuffers>>

\* C12: from construction on, each of the five per-slot vectors is longer than
\* the current index, so that SetInFlight and DestroyLater index an existing
\* element and never fail; no vector ever gets shorter; and after
\* SetCurrentIndex(s) each has at least s + 1 elements.
C12_SlotEntryAlwaysExists ==
    /\ [](\A i \in 1 .. 5 : Len(PerSlot[i]) > currentIndex)
    /\ [](fault = "none")
    /\ [][\A i \in 1 .. 5 : Len(PerSlot[i]') >= Len(PerSlot[i])]_vars
    /\ [][\A s \in Slots :
             SetCurrentIndex(s) => \A i \in 1 .. 5 : Len(PerSlot[i]') >= s + 1]_vars

\* The slot that was current at the latest SetInFlight of texture t, when the
\* frame loop has ended sinceMark[t] frames since.
MarkedSlot(t) == (currentIndex + RingDepth - sinceMark[t]) % RingDepth

\* What C13 says of the frames after the mark: the mark stays in its slot's set
\* and the texture is in flight after each of the first RingDepth - 1 slot
\* changes; the RingDepth-th is the one that comes back to the slot of the mark,
\* and after it the texture is in no set and not in flight.
InFlightForRingDepthMinusOneFrames ==
    /\ [](\A t \in Textures :
             /\ sinceMark[t] \in 0 .. (RingDepth - 1) =>
                    t \in inFlightTextures[MarkedSlot(t) + 1]
             /\ sinceMark[t] \in 1 .. (RingDepth - 1) => IsInFlight(t)
             /\ sinceMark[t] = RingDepth =>
                    /\ ~IsInFlight(t)
                    /\ \A i \in 1 .. Len(inFlightTextures) : t \notin inFlightTextures[i])
    /\ [][\A t \in Textures :
             (sinceMark[t] = RingDepth - 1 /\ sinceMark'[t] = RingDepth) =>
                 currentIndex' = MarkedSlot(t)]_vars

\* C13 as claimed: with the slots in order, a texture marked by SetInFlight and
\* not marked again is not in flight until the first slot change, in flight
\* after each of the next RingDepth - 1 SetCurrentIndex calls, and not in flight
\* after the RingDepth-th, which is the revisit of the slot of the mark.
C13_NotInFlightUntilFirstSlotChange ==
    /\ [](\A t \in Textures : sinceMark[t] = 0 => ~IsInFlight(t))
    /\ InFlightForRingDepthMinusOneFrames

\* C13 as amended: until the first slot change IsInFlight answers what it
\* answered before the SetInFlight call (false only for a texture that carried
\* no mark of another slot); the rest as claimed.
C13_InFlightUnchangedUntilFirstSlotChange ==
    /\ [][\A t \in Textures :
             sinceMark'[t] = 0 => (IsInFlight(t))' = IsInFlight(t)]_vars
    /\ InFlightForRingDepthMinusOneFrames

\* One texture's mark has been cleared by the RingDepth-th slot change, and
\* another, marked in the current slot, is in flight by its mark of another.
C13_Witness ==
    \E t, u \in Textures :
        /\ sinceMark[t] = RingDepth
        /\ ~IsInFlight(t)
        /\ sinceMark[u] = 0
        /\ IsInFlight(u)

\* C14: SetCurrentIndex(s) leaves slot s's in-flight set and four trash lists
\* empty, leaves those of every slot that existed before the call and is not s
\* as they were, and the slots it adds when it grows the vectors are empty.
C14_SetCurrentIndexEmptiesOnlyItsSlot ==
    [][\A s \in Slots :
          SetCurrentIndex(s) =>
              \A i \in 1 .. 5 :
                  /\ Len(PerSlot[i]') >= s + 1
                  /\ PerSlot[i]'[s + 1] = (IF i = 1 THEN {} ELSE <<>>)
                  /\ \A j \in 1 .. Len(PerSlot[i]') :
                        j # s + 1 =>
                            IF j <= Len(PerSlot[i])
                            THEN PerSlot[i]'[j] = PerSlot[i][j]
                            ELSE PerSlot[i]'[j] = (IF i = 1 THEN {} ELSE <<>>)]_vars

\* Slot 0 holds marks and trash that were put there while it was current, and
\* another slot is current now: the SetCurrentIndex that left slot 0 (growing
\* the vectors if slot 0 was the only one) emptied the other slot only.
C14_Witness ==
    /\ Len(inFlightTextures) = RingDepth
    /\ inFlightTextures[1] # {}
    /\ trashedImages[1] # <<>>
    /\ \A h \in Handles : h \in Range(trashedImages[1]) => ~revisited[h]
    /\ \A j \in 2 .. RingDepth :
          \A i \in 1 .. 5 : PerSlot[i][j] = (IF i = 1 THEN {} ELSE <<>>)
    /\ currentIndex # 0

\* Texture t is marked in flight in the slot that is current.
MarkedInCurrentSlot(t) ==
    /\ currentIndex < Len(inFlightTextures)
    /\ t \in inFlightTextures[currentIndex + 1]

\* C15: SetCurrentIndex leaves every texture that was marked in flight in the
\* slot current before the call without a read-only alias view, so that
\* GetReadOnlyImageView returns its primary view; it leaves the alias view of
\* every other texture as it was; and it changes nothing else of any texture.
C15_SetCurrentIndexResetsAliasOfVacatedSlot ==
    [][\A s \in Slots :
          SetCurrentIndex(s) =>
              \A t \in Textures :
                  /\ MarkedInCurrentSlot(t) =>
                        /\ textures'[t].readOnlyImageView = NullHandle
                        /\ GetReadOnlyImageView(textures'[t]) = textures'[t].imageView
                  /\ ~MarkedInCurrentSlot(t) =>
                        textures'[t].readOnlyImageView = textures[t].readOnlyImageView
                  /\ Owned(textures'[t]) = Owned(textures[t])]_vars

\* A texture with an image was marked in a slot that has been left and has no
\* alias view, and GetReadOnlyImageView returns its primary view.
C15_Witness ==
    \E t \in Textures :
        /\ textures[t].imageView # NullHandle
        /\ sinceMark[t] = 0
        /\ IsInFlight(t)
        /\ ~MarkedInCurrentSlot(t)
        /\ textures[t].readOnlyImageView = NullHandle
        /\ GetReadOnlyImageView(textures[t]) = textures[t].imageView

\* The filter and anisotropy members of a vk::SamplerCreateInfo.
FilterAndAnisotropy(info) ==
    <<info.magFilter, info.minFilter, info.anisotropyEnable, info.maxAnisotropy>>

\* C16: whatever the changes of the two options between the calls, the sampler
\* that a GetSampler call returns has the filter mode and the anisotropy
\* setting that the creation policy yields for its TSP word under the options
\* in effect at the call.
C16_SamplerFollowsOptionsInEffect ==
    [][\A full \in TSPWords :
          GetSamplerCall(full) =>
              FilterAndAnisotropy(samplerInfo'[samplers'[SamplerHash(full)]]) =
                  FilterAndAnisotropy(SamplerCreateInfo(full))]_vars

Scanning == {th \in ScanThreads : InScanBody(th)}

\* C17: at most one scan thread executes the scan body at any time; a thread
\* is created only when every thread created before has been joined; and a
\* fetch_game_list gets past its test only by reading scan_done false and then
\* running false, and creates the thread only after it has set running.
C17_AtMostOneScanThread ==
    /\ [](Cardinality(Scanning) <= 1)
    /\ [][\A th \in ScanThreads :
             (threads[th].pc = "unborn" /\ threads'[th].pc # "unborn") =>
                 /\ \A u \in ScanThreads \ {th} : threads[u].pc \in {"unborn", "joined"}
                 /\ running
                 /\ \E c \in Callers : threadMutex = c /\ callers[c].op = "fetch"]_vars
    /\ [][\A c \in Callers :
             /\ (callers[c].pc # "test_running" /\ callers'[c].pc = "test_running")
                    => ~scan_done
             /\ (callers[c].pc # "fetch_join" /\ callers'[c].pc = "fetch_join")
                    => (callers[c].pc = "test_running" /\ ~running)]_vars

\* A second scan thread is in the scan body, the first has been joined, and one
\* caller waits in stop() for the thread to end while another waits for the
\* mutex.
C17_Witness ==
    /\ scansStarted >= 2
    /\ threads[1].pc = "joined"
    /\ Scanning = {scan_thread}
    /\ \E c, d \in Callers :
          /\ callers[c].pc = "stop_join"
          /\ callers[d] = [op |-> "fetch", pc |-> "lock"]

\* C18: when stop() returns (on its own or as the first statement of
\* refresh()), every scan thread created has terminated and been joined,
\* running is false, empty_folders_scanned is 0 and
\* content_path_looks_incorrect is false.
C18_StopReturnsWithScannerReset ==
    [][\A c \in Callers :
          StopJoin(c) =>
              /\ \A th \in ScanThreads : threads'[th].pc \in {"unborn", "joined"}
              /\ ~running'
              /\ empty_folders_scanned' = 0
              /\ ~content_path_looks_incorrect']_vars

\* C19: scan_done becomes true only in a step of a scan thread that went
\* through every content path and never found running false in a test that
\* breaks its loops, so a scan cut short by stop() leaves scan_done as it was;
\* and fetch_game_list creates no scan thread while scan_done is true.
C19_ScanDoneOnlyAfterFullScanAndNoRescan ==
    /\ [][(~scan_done /\ scan_done') =>
             \E th \in ScanThreads :
                 /\ SetScanDone(th)
                 /\ ~threads[th].cut
                 /\ threads[th].path = NumPaths]_vars
    /\ [][\A th \in ScanThreads :
             (threads[th].cut /\ threads[th] # threads'[th]) =>
                 scan_done' = scan_done]_vars
    /\ [][\A c \in Callers : FetchSpawn(c) => ~scan_done]_vars

====
